---- MODULE Spec2Model ----
(***************************************************************************)
(* Model of airflow/contrib/hooks/wasb_hook.py: the two connection         *)
(* adapters WasbHook (Azure Blob Storage) and FileShareHook (Azure File    *)
(* Share).  Each adapter resolves a connection record once, in __init__,   *)
(* builds one vendor client from it and forwards every storage operation   *)
(* to that client.                                                         *)
(*                                                                         *)
(* The vendor clients (BlockBlobService, FileService) and the connection  *)
(* registry (BaseHook.get_connection) are collaborators outside the file;  *)
(* they are modelled as a recording stub with a small store behind it.     *)
(*                                                                         *)
(* Python values: str is a TLA+ string, None is the string "None", a       *)
(* keyword mapping (kwargs, extra_dejson) is a set of <<key, value>>     *)
(* pairs, bytes is a sequence of integers 0..255.                          *)
(***************************************************************************)
EXTENDS Integers, Sequences, FiniteSets, TLC

VARIABLES
    hooks,      \* the adapter objects constructed so far: [cls, conn_id, connection]
    clients,    \* the vendor clients constructed so far (identity = position)
    blobs,      \* blob store of the storage account: <<container, blob>> -> bytes
    fshare,     \* file share store of the account: <<share, directory, file>> -> bytes
    files,      \* local file system: path -> bytes
    strOf,      \* history: <<container, blob>> -> text last uploaded to it by load_string
    lastOp      \* the last call made on the module and everything it did

vars == <<hooks, clients, blobs, fshare, files, strOf, lastOp>>

\* ------------------------------------------------------------------ bounds

MaxHooks == 1
MaxClients == 2

\* ------------------------------------------------------------- Python values

None == "None"

\* Keyword mappings as sets of <<key, value>> pairs.
Keys(kw) == {p[1] : p \in kw}

KwGet(kw, key, default) ==
    IF key \in Keys(kw) THEN (CHOOSE p \in kw : p[1] = key)[2] ELSE default

\* How a call ends: it returns a value or raises an error. A value is written as
\* Python prints it ("None", "True", "False"); a list or an object is named by val
\* and carries its items or its name in detail.
Return(v) == [kind |-> "return", val |-> v, detail |-> <<>>]
Raise(e) == [kind |-> "raise", val |-> e, detail |-> <<>>]
NoOutcome == [kind |-> "none", val |-> None, detail |-> <<>>]
ReturnList(items) == [kind |-> "return", val |-> "list", detail |-> items]
Bool(b) == IF b THEN "True" ELSE "False"

EmptyMap == [k \in {} |-> <<>>]

Drop(f, k) == [x \in DOMAIN f \ {k} |-> f[x]]

Put(f, k, v) == [x \in DOMAIN f \cup {k} |-> IF x = k THEN v ELSE f[x]]

\* The code points of the strings the model uses ("ole" stands for "ol" followed by
\* e-acute, U+00E9).
Chars(s) ==
    CASE s = "a" -> <<97>>
      [] s = "ab" -> <<97, 98>>
      [] s = "b" -> <<98>>
      [] s = "hi" -> <<104, 105>>
      [] s = "ole" -> <<111, 108, 233>>
      [] OTHER -> <<63>>

StartsWith(s, prefix) ==
    /\ Len(Chars(prefix)) <= Len(Chars(s))
    /\ SubSeq(Chars(s), 1, Len(Chars(prefix))) = Chars(prefix)

RECURSIVE Utf8Encode(_)
Utf8Encode(cps) ==
    IF cps = <<>> THEN <<>>
    ELSE LET cp == Head(cps) IN
         (IF cp < 128 THEN <<cp>> ELSE <<192 + (cp \div 64), 128 + (cp % 64)>>)
            \o Utf8Encode(Tail(cps))

RECURSIVE Utf8Decode(_)
Utf8Decode(bs) ==
    IF bs = <<>> THEN <<>>
    ELSE IF Head(bs) < 128 THEN <<Head(bs)>> \o Utf8Decode(Tail(bs))
    ELSE IF Len(bs) >= 2
         THEN <<(Head(bs) - 192) * 64 + (bs[2] - 128)>> \o Utf8Decode(Tail(Tail(bs)))
         ELSE <<65533>>

\* ---------------------------------------------------------------- inputs

Registry ==
    [id \in {"wasb_default", "wasb_sas", "wasb_dup"} |->
        CASE id = "wasb_default" ->
                [login |-> "devaccount", password |-> "devkey", extra |-> {}]
          [] id = "wasb_sas" ->
                [login |-> "devaccount", password |-> None,
                 extra |-> {<<"sas_token", "tok">>}]
          [] id = "wasb_dup" ->
                [login |-> "devaccount", password |-> "devkey",
                 extra |-> {<<"account_name", "other">>}]]

ConnIds == DOMAIN Registry \cup {"wasb_missing"}

Containers == {"c1"}
BlobNames == {"a", "ab"}
Prefixes == {"a", "ab", "b"}
SortedBlobNames == <<"a", "ab">>
Texts == {"hi", "ole"}
Paths == {"p"}
Streams == {"buf"}
Kwargs == {{}, {<<"timeout", 30>>}}
ListKwargs == Kwargs \cup {{<<"num_results", 5>>}}
Faults == {"none", "AzureHttpError"}

Shares == {"s", "t"}
Directories == {None, "d", "e"}
FileNames == {None, "x"}
TransferDirectories == {None, "d"}
TransferFiles == {"x"}
ExistingShares == {"s"}

\* The argument universes of the storage methods.
Full ==
    [names |-> BlobNames, prefixes |-> Prefixes, texts |-> Texts, kwargs |-> Kwargs,
     listkwargs |-> ListKwargs, shares |-> Shares, directories |-> Directories,
     transferDirectories |-> TransferDirectories]

Small ==
    [names |-> {"a"}, prefixes |-> {"a", "b"}, texts |-> {"ole"},
     kwargs |-> {{<<"timeout", 30>>}},
     listkwargs |-> {{<<"timeout", 30>>}, {<<"num_results", 5>>}},
     shares |-> {"s"}, directories |-> {None, "d"}, transferDirectories |-> {None}]

ExistingDirectories == {<<"s", None>>, <<"s", "d">>}

\* ------------------------------------------------- collaborators (outside the file)

\* BaseHook.get_connection: the registry lookup; raises when the id is not registered.
get_connection(conn_id) ==
    IF conn_id \in DOMAIN Registry
    THEN Return(Registry[conn_id])
    ELSE Raise("AirflowException")

\* Connection.extra_dejson: the connection's extra field as a mapping.
extra_dejson(conn) == conn.extra

\* BlockBlobService(...) / FileService(...): the vendor constructor. It rejects
\* credentials without an account name.
VendorNew(service, kwargs) ==
    IF KwGet(kwargs, "account_name", None) = None
    THEN Raise("ValueError")
    ELSE Return([service |-> service,
                 account_name |-> KwGet(kwargs, "account_name", None),
                 account_key |-> KwGet(kwargs, "account_key", None),
                 options |-> {p \in kwargs : p[1] \notin {"account_name", "account_key"}}])

BlobMethods ==
    {"exists", "list_blobs", "get_blob_to_path", "get_blob_to_stream",
     "create_blob_from_path", "create_blob_from_text"}

FileMethods ==
    {"exists", "get_file_to_path", "get_file_to_stream",
     "create_file_from_path", "create_file_from_text"}

\* What a vendor call leaves behind: its outcome, the stores, the local files and
\* the bytes written to the caller's stream.
Effect(out, b, fs, fl, w) ==
    [out |-> out, blobs |-> b, fshare |-> fs, files |-> fl, written |-> w]

NoEffect(out) == Effect(out, blobs, fshare, files, <<>>)

Properties(name) == [kind |-> "return", val |-> "properties", detail |-> <<name>>]

\* BlockBlobService.list_blobs: the blobs of the container whose name starts with
\* the prefix, in name order, at most num_results of them.
ListBlobs(container, prefix, kwargs) ==
    LET Matches(n) == <<container, n>> \in DOMAIN blobs /\ StartsWith(n, prefix)
        all == SelectSeq(SortedBlobNames, Matches)
        num_results == KwGet(kwargs, "num_results", Len(all))
    IN IF num_results >= Len(all) THEN all ELSE SubSeq(all, 1, num_results)

\* The methods of BlockBlobService the adapter uses.
BlockBlobService(method, args, kwargs) ==
    LET key == <<args[1], args[2]>> IN
    CASE method = "exists" ->
            NoEffect(Return(Bool(key \in DOMAIN blobs)))
      [] method = "list_blobs" ->
            NoEffect(ReturnList(ListBlobs(args[1], args[2], kwargs)))
      [] method = "get_blob_to_path" ->
            IF key \notin DOMAIN blobs
            THEN NoEffect(Raise("AzureMissingResourceHttpError"))
            ELSE Effect(Properties(args[2]), blobs, fshare,
                        Put(files, args[3], blobs[key]), <<>>)
      [] method = "get_blob_to_stream" ->
            IF key \notin DOMAIN blobs
            THEN NoEffect(Raise("AzureMissingResourceHttpError"))
            ELSE Effect(Properties(args[2]), blobs, fshare, files,
                        blobs[key])
      [] method = "create_blob_from_path" ->
            IF args[1] \notin Containers
            THEN NoEffect(Raise("AzureMissingResourceHttpError"))
            ELSE IF args[3] \notin DOMAIN files
            THEN NoEffect(Raise("IOError"))
            ELSE Effect(Return(None), Put(blobs, key, files[args[3]]), fshare, files, <<>>)
      [] method = "create_blob_from_text" ->
            IF args[1] \notin Containers
            THEN NoEffect(Raise("AzureMissingResourceHttpError"))
            ELSE Effect(Return(None), Put(blobs, key, Utf8Encode(Chars(args[3]))),
                        fshare, files, <<>>)
      [] OTHER -> NoEffect(Raise("AttributeError"))

\* FileService.exists: which resource is looked up depends on which names are given.
FileServiceExists(share, directory, file) ==
    IF file # None
    THEN <<share, directory, file>> \in DOMAIN fshare
    ELSE IF directory # None
    THEN <<share, directory>> \in ExistingDirectories
    ELSE share \in ExistingShares

\* The methods of FileService the adapter uses.
FileService(method, args, kwargs) ==
    LET key == <<args[1], args[2], args[3]>>
        dir == <<args[1], args[2]>>
    IN
    CASE method = "exists" ->
            NoEffect(Return(Bool(FileServiceExists(args[1], args[2], args[3]))))
      [] method = "get_file_to_path" ->
            IF key \notin DOMAIN fshare
            THEN NoEffect(Raise("AzureMissingResourceHttpError"))
            ELSE Effect(Properties(args[3]), blobs, fshare,
                        Put(files, args[4], fshare[key]), <<>>)
      [] method = "get_file_to_stream" ->
            IF key \notin DOMAIN fshare
            THEN NoEffect(Raise("AzureMissingResourceHttpError"))
            ELSE Effect(Properties(args[3]), blobs, fshare, files,
                        fshare[key])
      [] method = "create_file_from_path" ->
            IF dir \notin ExistingDirectories
            THEN NoEffect(Raise("AzureMissingResourceHttpError"))
            ELSE IF args[4] \notin DOMAIN files
            THEN NoEffect(Raise("IOError"))
            ELSE Effect(Return(None), blobs, Put(fshare, key, files[args[4]]), files, <<>>)
      [] method = "create_file_from_text" ->
            IF dir \notin ExistingDirectories
            THEN NoEffect(Raise("AzureMissingResourceHttpError"))
            ELSE Effect(Return(None), blobs, Put(fshare, key, Utf8Encode(Chars(args[4]))),
                        files, <<>>)
      [] OTHER -> NoEffect(Raise("AttributeError"))

\* One request to the vendor client: a transport fault raises before anything
\* happens, a method the client's class lacks raises AttributeError.
Vendor(call, fault) ==
    LET service == clients[call.client].service IN
    IF service = "BlockBlobService" /\ call.method \notin BlobMethods
        THEN NoEffect(Raise("AttributeError"))
    ELSE IF service = "FileService" /\ call.method \notin FileMethods
        THEN NoEffect(Raise("AttributeError"))
    ELSE IF fault # "none" THEN NoEffect(Raise(fault))
    ELSE IF service = "BlockBlobService"
        THEN BlockBlobService(call.method, call.args, call.kwargs)
    ELSE FileService(call.method, call.args, call.kwargs)

\* -------------------------------------------------------------- the adapters

\* A forwarding statement: self.connection.<method>(*args, <fixed keywords>,
\* **kwargs), and what the adapter method does with the value that comes back:
\* "value" returns it, "nonempty" returns len(list(value)) > 0, "none" drops it
\* (the method has no return statement).
Forward(connection, method, args, fixed, kwargs, ret) ==
    [target |-> connection, method |-> method, args |-> args,
     fixed |-> fixed, kwargs |-> kwargs, ret |-> ret]

\* get_conn with login and password exchanged in the constructor call.
get_conn_swapped(service, conn_id) ==
    LET found == get_connection(conn_id) IN
    IF found.kind = "raise"
    THEN [lookups |-> 1, calls |-> <<>>, out |-> found]
    ELSE LET conn == found.val
             service_options == extra_dejson(conn)
             explicit == {<<"account_name", conn.password>>,
                          <<"account_key", conn.login>>}
             call == [client |-> 0, method |-> service, args |-> <<>>,
                      kwargs |-> explicit \cup service_options]
         IN IF Keys(explicit) \cap Keys(service_options) # {}
            THEN [lookups |-> 1, calls |-> <<>>, out |-> Raise("TypeError")]
            ELSE [lookups |-> 1, calls |-> <<call>>,
                  out |-> VendorNew(service, call.kwargs)]

\* get_conn that builds the vendor client before it looks at the lookup's result.
get_conn_eager(service, conn_id) ==
    LET found == get_connection(conn_id)
        call == [client |-> 0, method |-> service, args |-> <<>>,
                 kwargs |-> {<<"account_name", None>>, <<"account_key", None>>}]
    IN IF found.kind = "raise"
       THEN [lookups |-> 1, calls |-> <<call>>, out |-> found]
       ELSE [lookups |-> 1,
             calls |-> <<[call EXCEPT !.kwargs =
                            {<<"account_name", found.val.login>>,
                             <<"account_key", found.val.password>>}
                            \cup extra_dejson(found.val)]>>,
             out |-> VendorNew(service,
                               {<<"account_name", found.val.login>>,
                                <<"account_key", found.val.password>>}
                               \cup extra_dejson(found.val))]

\* get_conn of both classes: look the connection up, then build the vendor client
\* from login, password and the extra options. Passing a keyword twice (an extra
\* option named account_name or account_key) is a TypeError at the call.
get_conn(service, conn_id) ==
    LET found == get_connection(conn_id) IN
    IF found.kind = "raise"
    THEN [lookups |-> 1, calls |-> <<>>, out |-> found]
    ELSE LET conn == found.val
             service_options == extra_dejson(conn)
             explicit == {<<"account_name", conn.login>>,
                          <<"account_key", conn.password>>}
             call == [client |-> 0, method |-> service, args |-> <<>>,
                      kwargs |-> explicit \cup service_options]
         IN IF Keys(explicit) \cap Keys(service_options) # {}
            THEN [lookups |-> 1, calls |-> <<>>, out |-> Raise("TypeError")]
            ELSE [lookups |-> 1, calls |-> <<call>>,
                  out |-> VendorNew(service, call.kwargs)]

WasbHook_get_conn(conn_id) == get_conn("BlockBlobService", conn_id)

FileShareHook_get_conn(conn_id) == get_conn("FileService", conn_id)

ClassGetConn(cls, conn_id) ==
    IF cls = "WasbHook" THEN WasbHook_get_conn(conn_id)
    ELSE FileShareHook_get_conn(conn_id)

\* check_for_blob with the two names exchanged.
WasbHook_check_for_blob_swapped(self, container_name, blob_name, kwargs) ==
    Forward(self.connection, "exists", <<blob_name, container_name>>, {}, kwargs, "value")

WasbHook_check_for_blob(self, container_name, blob_name, kwargs) ==
    Forward(self.connection, "exists", <<container_name, blob_name>>, {}, kwargs, "value")

\* check_for_prefix asking for no result at all.
WasbHook_check_for_prefix_zero(self, container_name, prefix, kwargs) ==
    Forward(self.connection, "list_blobs", <<container_name, prefix>>,
            {<<"num_results", 0>>}, kwargs, "nonempty")

WasbHook_check_for_prefix(self, container_name, prefix, kwargs) ==
    Forward(self.connection, "list_blobs", <<container_name, prefix>>,
            {<<"num_results", 1>>}, kwargs, "nonempty")

\* get_blob_to_path forwarding to the stream download its docstring names.
WasbHook_get_blob_to_path_stream(self, container_name, blob_name, file_path, kwargs) ==
    Forward(self.connection, "get_blob_to_stream",
            <<container_name, blob_name, file_path>>, {}, kwargs, "value")

WasbHook_get_blob_to_path(self, container_name, blob_name, file_path, kwargs) ==
    Forward(self.connection, "get_blob_to_path",
            <<container_name, blob_name, file_path>>, {}, kwargs, "value")

WasbHook_get_blob_to_stream(self, container_name, blob_name, stream, kwargs) ==
    Forward(self.connection, "get_blob_to_stream",
            <<container_name, blob_name, stream>>, {}, kwargs, "value")

\* load_file forwarding its arguments in its own order.
WasbHook_load_file_unordered(self, file_path, container_name, blob_name, kwargs) ==
    Forward(self.connection, "create_blob_from_path",
            <<file_path, container_name, blob_name>>, {}, kwargs, "none")

WasbHook_load_file(self, file_path, container_name, blob_name, kwargs) ==
    Forward(self.connection, "create_blob_from_path",
            <<container_name, blob_name, file_path>>, {}, kwargs, "none")

WasbHook_load_string(self, string_data, container_name, blob_name, kwargs) ==
    Forward(self.connection, "create_blob_from_text",
            <<container_name, blob_name, string_data>>, {}, kwargs, "none")

\* check_for_file forgetting the file name.
FileShareHook_check_for_file_nofile(self, share_name, directory_name, file_name, kwargs) ==
    Forward(self.connection, "exists", <<share_name, directory_name, None>>,
            {}, kwargs, "value")

FileShareHook_check_for_file(self, share_name, directory_name, file_name, kwargs) ==
    Forward(self.connection, "exists", <<share_name, directory_name, file_name>>,
            {}, kwargs, "value")

FileShareHook_get_file_to_path(self, share_name, directory_name, file_name, file_path, kwargs) ==
    Forward(self.connection, "get_file_to_path",
            <<share_name, directory_name, file_name, file_path>>, {}, kwargs, "value")

FileShareHook_get_file_to_stream(self, share_name, directory_name, file_name, stream, kwargs) ==
    Forward(self.connection, "get_file_to_stream",
            <<share_name, directory_name, file_name, stream>>, {}, kwargs, "value")

\* load_file forwarding its arguments in its own order.
FileShareHook_load_file_unordered(self, file_path, share_name, directory_name, file_name, kwargs) ==
    Forward(self.connection, "create_file_from_path",
            <<file_path, share_name, directory_name, file_name>>, {}, kwargs, "none")

FileShareHook_load_file(self, file_path, share_name, directory_name, file_name, kwargs) ==
    Forward(self.connection, "create_file_from_path",
            <<share_name, directory_name, file_name, file_path>>, {}, kwargs, "none")

FileShareHook_load_string(self, string_data, share_name, directory_name, file_name, kwargs) ==
    Forward(self.connection, "create_file_from_text",
            <<share_name, directory_name, file_name, string_data>>, {}, kwargs, "none")

\* ------------------------------------------------------------------ actions

Init ==
    /\ hooks = <<>>
    /\ clients = <<>>
    /\ blobs = EmptyMap
    /\ fshare = EmptyMap
    /\ files = [f \in {"p"} |-> Utf8Encode(Chars("hi"))]
    /\ strOf = EmptyMap
    /\ lastOp = [op |-> "none", self |-> 0, args |-> <<>>, kwargs |-> {}, lookups |-> 0,
                 calls |-> <<>>, vout |-> NoOutcome, out |-> NoOutcome, written |-> <<>>,
                 made |-> 0]

\* __init__ of both classes: self.conn_id = wasb_conn_id, then
\* self.connection = self.get_conn(). When get_conn raises, __init__ raises and
\* the caller gets no object.
Construct(cls, wasb_conn_id) ==
    LET r == ClassGetConn(cls, wasb_conn_id)
        ok == r.out.kind = "return"
        id == Len(clients) + 1
    IN /\ ok => Len(hooks) < MaxHooks /\ Len(clients) < MaxClients
       /\ clients' = IF ok THEN Append(clients, r.out.val) ELSE clients
       /\ hooks' = IF ok
                   THEN Append(hooks, [cls |-> cls, conn_id |-> wasb_conn_id,
                                       connection |-> id])
                   ELSE hooks
       /\ lastOp' = [op |-> "__init__", self |-> IF ok THEN Len(hooks) + 1 ELSE 0,
                     args |-> <<cls, wasb_conn_id>>, kwargs |-> {},
                     lookups |-> r.lookups, calls |-> r.calls,
                     vout |-> IF r.calls = <<>> THEN NoOutcome
                              ELSE IF ok THEN Return("client") ELSE r.out,
                     out |-> IF ok THEN Return(None) ELSE r.out,
                     written |-> <<>>, made |-> IF ok THEN id ELSE 0]
       /\ UNCHANGED <<blobs, fshare, files, strOf>>

WasbHook_init == \E id \in ConnIds : Construct("WasbHook", id)

FileShareHook_init == \E id \in ConnIds : Construct("FileShareHook", id)

\* get_conn that also stores the new client in self.connection.
CallGetConnRebind(i) ==
    LET self == hooks[i]
        r == ClassGetConn(self.cls, self.conn_id)
        ok == r.out.kind = "return"
        id == Len(clients) + 1
    IN /\ ok => Len(clients) < MaxClients
       /\ clients' = IF ok THEN Append(clients, r.out.val) ELSE clients
       /\ hooks' = IF ok THEN [hooks EXCEPT ![i].connection = id] ELSE hooks
       /\ lastOp' = [op |-> "get_conn", self |-> i, args |-> <<>>, kwargs |-> {},
                     lookups |-> r.lookups, calls |-> r.calls,
                     vout |-> IF r.calls = <<>> THEN NoOutcome
                              ELSE IF ok THEN Return("client") ELSE r.out,
                     out |-> IF ok THEN Return("client") ELSE r.out,
                     written |-> <<>>, made |-> IF ok THEN id ELSE 0]
       /\ UNCHANGED <<blobs, fshare, files, strOf>>

\* The public get_conn called on a constructed adapter: it returns a new client and
\* assigns nothing.
CallGetConn(i) ==
    LET self == hooks[i]
        r == ClassGetConn(self.cls, self.conn_id)
        ok == r.out.kind = "return"
        id == Len(clients) + 1
    IN /\ ok => Len(clients) < MaxClients
       /\ clients' = IF ok THEN Append(clients, r.out.val) ELSE clients
       /\ lastOp' = [op |-> "get_conn", self |-> i, args |-> <<>>, kwargs |-> {},
                     lookups |-> r.lookups, calls |-> r.calls,
                     vout |-> IF r.calls = <<>> THEN NoOutcome
                              ELSE IF ok THEN Return("client") ELSE r.out,
                     out |-> IF ok THEN Return("client") ELSE r.out,
                     written |-> <<>>, made |-> IF ok THEN id ELSE 0]
       /\ UNCHANGED <<hooks, blobs, fshare, files, strOf>>

\* What the adapter method returns for the vendor's value.
Result(ret, value) ==
    CASE ret = "value" -> value
      [] ret = "nonempty" -> Return(Bool(Len(value.detail) > 0))
      [] OTHER -> Return(None)

\* The text history: a successful load_string records its text for the blob, a
\* successful load_file to the blob forgets it.
History(op, args, out) ==
    IF out.kind # "return" THEN strOf
    ELSE IF op = "WasbHook.load_string" THEN Put(strOf, <<args[2], args[3]>>, args[1])
    ELSE IF op = "WasbHook.load_file" THEN Drop(strOf, <<args[2], args[3]>>)
    ELSE strOf

\* (lastOp.made is the client a call constructed, 0 when it constructed none.)
\* One call of a storage method: the forwarding statement is executed once; a
\* keyword given twice fails the call before the vendor is reached; whatever the
\* vendor raises leaves the method as it is.
Step(op, i, args, kwargs, plan, fault) ==
    LET collide == Keys(plan.fixed) \cap Keys(plan.kwargs) # {}
        call == [client |-> plan.target, method |-> plan.method, args |-> plan.args,
                 kwargs |-> plan.fixed \cup plan.kwargs]
    IN \E eff \in {IF collide THEN NoEffect(NoOutcome) ELSE Vendor(call, fault)} :
       \E out \in {IF collide THEN Raise("TypeError")
                   ELSE IF eff.out.kind = "raise" THEN eff.out
                   ELSE Result(plan.ret, eff.out)} :
          /\ blobs' = eff.blobs
          /\ fshare' = eff.fshare
          /\ files' = eff.files
          /\ strOf' = History(op, args, out)
          /\ lastOp' = [op |-> op, self |-> i, args |-> args, kwargs |-> kwargs,
                        lookups |-> 0, calls |-> IF collide THEN <<>> ELSE <<call>>,
                        vout |-> eff.out, out |-> out, written |-> eff.written,
                        made |-> 0]
          /\ UNCHANGED <<hooks, clients>>

WasbHooks == {i \in 1..Len(hooks) : hooks[i].cls = "WasbHook"}

FileShareHooks == {i \in 1..Len(hooks) : hooks[i].cls = "FileShareHook"}

get_conn_wasb == \E i \in WasbHooks : CallGetConn(i)

get_conn_fileshare == \E i \in FileShareHooks : CallGetConn(i)

\* The storage methods, called with arguments drawn from the universe U.
check_for_blob(U) ==
    \E i \in WasbHooks, c \in Containers, n \in U.names, kw \in U.kwargs,
       fault \in Faults :
        Step("WasbHook.check_for_blob", i, <<c, n>>, kw,
             WasbHook_check_for_blob(hooks[i], c, n, kw), fault)

check_for_prefix(U) ==
    \E i \in WasbHooks, c \in Containers, x \in U.prefixes, kw \in U.listkwargs,
       fault \in Faults :
        Step("WasbHook.check_for_prefix", i, <<c, x>>, kw,
             WasbHook_check_for_prefix(hooks[i], c, x, kw), fault)

get_blob_to_path(U) ==
    \E i \in WasbHooks, c \in Containers, n \in U.names, f \in Paths, kw \in U.kwargs,
       fault \in Faults :
        Step("WasbHook.get_blob_to_path", i, <<c, n, f>>, kw,
             WasbHook_get_blob_to_path(hooks[i], c, n, f, kw), fault)

get_blob_to_stream(U) ==
    \E i \in WasbHooks, c \in Containers, n \in U.names, st \in Streams,
       kw \in U.kwargs, fault \in Faults :
        Step("WasbHook.get_blob_to_stream", i, <<c, n, st>>, kw,
             WasbHook_get_blob_to_stream(hooks[i], c, n, st, kw), fault)

load_file(U) ==
    \E i \in WasbHooks, f \in Paths, c \in Containers, n \in U.names, kw \in U.kwargs,
       fault \in Faults :
        Step("WasbHook.load_file", i, <<f, c, n>>, kw,
             WasbHook_load_file(hooks[i], f, c, n, kw), fault)

load_string(U) ==
    \E i \in WasbHooks, d \in U.texts, c \in Containers, n \in U.names,
       kw \in U.kwargs, fault \in Faults :
        Step("WasbHook.load_string", i, <<d, c, n>>, kw,
             WasbHook_load_string(hooks[i], d, c, n, kw), fault)

check_for_file(U) ==
    \E i \in FileShareHooks, s \in U.shares, d \in U.directories, f \in FileNames,
       kw \in U.kwargs, fault \in Faults :
        Step("FileShareHook.check_for_file", i, <<s, d, f>>, kw,
             FileShareHook_check_for_file(hooks[i], s, d, f, kw), fault)

get_file_to_path(U) ==
    \E i \in FileShareHooks, s \in ExistingShares, d \in U.transferDirectories,
       f \in TransferFiles, path \in Paths, kw \in U.kwargs, fault \in Faults :
        Step("FileShareHook.get_file_to_path", i, <<s, d, f, path>>, kw,
             FileShareHook_get_file_to_path(hooks[i], s, d, f, path, kw), fault)

get_file_to_stream(U) ==
    \E i \in FileShareHooks, s \in ExistingShares, d \in U.transferDirectories,
       f \in TransferFiles, st \in Streams, kw \in U.kwargs, fault \in Faults :
        Step("FileShareHook.get_file_to_stream", i, <<s, d, f, st>>, kw,
             FileShareHook_get_file_to_stream(hooks[i], s, d, f, st, kw), fault)

file_load_file(U) ==
    \E i \in FileShareHooks, path \in Paths, s \in ExistingShares,
       d \in U.transferDirectories, f \in TransferFiles, kw \in U.kwargs,
       fault \in Faults :
        Step("FileShareHook.load_file", i, <<path, s, d, f>>, kw,
             FileShareHook_load_file(hooks[i], path, s, d, f, kw), fault)

file_load_string(U) ==
    \E i \in FileShareHooks, data \in U.texts, s \in ExistingShares,
       d \in U.transferDirectories, f \in TransferFiles, kw \in U.kwargs,
       fault \in Faults :
        Step("FileShareHook.load_string", i, <<data, s, d, f>>, kw,
             FileShareHook_load_string(hooks[i], data, s, d, f, kw), fault)

NextBlob(U) ==
    \/ WasbHook_init
    \/ get_conn_wasb
    \/ check_for_blob(U)
    \/ check_for_prefix(U)
    \/ get_blob_to_path(U)
    \/ get_blob_to_stream(U)
    \/ load_file(U)
    \/ load_string(U)

NextFile(U) ==
    \/ FileShareHook_init
    \/ get_conn_fileshare
    \/ check_for_file(U)
    \/ get_file_to_path(U)
    \/ get_file_to_stream(U)
    \/ file_load_file(U)
    \/ file_load_string(U)

\* Blob adapters alone, over the full universe.
SpecBlob == Init /\ [][NextBlob(Full)]_vars

\* File-share adapters alone, over the full universe.
SpecFile == Init /\ [][NextFile(Full)]_vars

\* Both classes side by side, over the small universe.
Next == NextBlob(Small) \/ NextFile(Small)

Spec == Init /\ [][Next]_vars

\* ------------------------------------------------------------------ claims

StorageOps ==
    {"WasbHook.check_for_blob", "WasbHook.check_for_prefix", "WasbHook.get_blob_to_path",
     "WasbHook.get_blob_to_stream", "WasbHook.load_file", "WasbHook.load_string",
     "FileShareHook.check_for_file", "FileShareHook.get_file_to_path",
     "FileShareHook.get_file_to_stream", "FileShareHook.load_file",
     "FileShareHook.load_string"}

ServiceOf(cls) == IF cls = "WasbHook" THEN "BlockBlobService" ELSE "FileService"

Returned(o) == o.out.kind = "return"

\* The adapter's client is the one built from its identifier's record.
BuiltFromRecord(h) ==
    /\ h.conn_id \in DOMAIN Registry
    /\ h.connection \in 1..Len(clients)
    /\ clients[h.connection] =
          [service |-> ServiceOf(h.cls),
           account_name |-> Registry[h.conn_id].login,
           account_key |-> Registry[h.conn_id].password,
           options |-> Registry[h.conn_id].extra]

C1_State ==
    /\ \A i \in 1..Len(hooks) : BuiltFromRecord(hooks[i])
    /\ \A i, j \in 1..Len(hooks) : hooks[i].connection = hooks[j].connection => i = j
    /\ lastOp.op = "__init__" /\ Returned(lastOp) =>
          /\ lastOp.lookups = 1
          /\ Len(lastOp.calls) = 1
          /\ lastOp.calls[1].method = ServiceOf(lastOp.args[1])
          /\ lastOp.self = Len(hooks)
          /\ hooks[lastOp.self].conn_id = lastOp.args[2]
          /\ hooks[lastOp.self].connection = lastOp.made
          /\ lastOp.made = Len(clients)
    /\ lastOp.op \in StorageOps =>
          /\ lastOp.lookups = 0
          /\ lastOp.made = 0
          /\ \A k \in 1..Len(lastOp.calls) :
                /\ lastOp.calls[k].client = hooks[lastOp.self].connection
                /\ lastOp.calls[k].method \notin {"BlockBlobService", "FileService"}

C1_Step ==
    /\ Len(hooks') >= Len(hooks)
    /\ Len(clients') >= Len(clients)
    /\ \A i \in 1..Len(hooks) : hooks'[i] = hooks[i]
    /\ \A k \in 1..Len(clients) : clients'[k] = clients[k]
    /\ lastOp'.op \in StorageOps => hooks' = hooks /\ clients' = clients

\* The part of C1 about adapters that exist: each is bound to exactly one vendor
\* client, built from its identifier's login (account name), password (account
\* key) and extra options; construction makes one lookup and one constructor
\* call; the storage methods make no lookup, build no client and leave every
\* adapter's client as it was.
C1_BoundOnceAtConstruction == [](C1_State) /\ [][C1_Step]_vars

\* C1: for every registered connection identifier, construction yields an adapter,
\* bound to exactly one vendor client built from that identifier's login (account
\* name), password (account key) and extra options, with one lookup and one
\* constructor call at construction and none in the storage methods.
C1_EveryRegisteredIdConstructs ==
    /\ C1_State
    /\ lastOp.op = "__init__" /\ lastOp.args[2] \in DOMAIN Registry =>
          /\ Returned(lastOp)
          /\ lastOp.out.val # "TypeError"

\* A storage call went to the adapter's client after the adapter was constructed
\* from a record with extra options.
C1_Witness ==
    /\ lastOp.op \in StorageOps
    /\ Returned(lastOp)
    /\ hooks[lastOp.self].conn_id = "wasb_sas"
    /\ clients[hooks[lastOp.self].connection].options = {<<"sas_token", "tok">>}
    /\ lastOp.calls[1].client = hooks[lastOp.self].connection

\* C2: constructing either class with an unregistered identifier raises the lookup
\* error, makes no vendor constructor call, and leaves the adapters and the
\* clients as they were.
C2_LookupFailsFirst ==
    [][lastOp'.op = "__init__" /\ lastOp'.args[2] \notin DOMAIN Registry =>
          /\ lastOp'.out = Raise("AirflowException")
          /\ lastOp'.lookups = 1
          /\ lastOp'.calls = <<>>
          /\ lastOp'.self = 0
          /\ clients' = clients
          /\ hooks' = hooks
          /\ \A i \in 1..Len(hooks') : hooks'[i].conn_id \in DOMAIN Registry]_vars

\* A file-share construction with the unregistered identifier failed while another
\* adapter existed.
C2_Witness ==
    /\ lastOp.op = "__init__"
    /\ lastOp.args = <<"FileShareHook", "wasb_missing">>
    /\ lastOp.out = Raise("AirflowException")
    /\ Len(hooks) = 1
    /\ Len(clients) = 1

\* C3: load_file(path, container, name, options) calls create_blob_from_path with
\* (container, name, path), and load_string(data, container, name, options) calls
\* create_blob_from_text with (container, name, data); the options go through
\* unchanged.
C3_UploadArgumentOrder ==
    /\ lastOp.op = "WasbHook.load_file" =>
          lastOp.calls =
             <<[client |-> hooks[lastOp.self].connection,
                method |-> "create_blob_from_path",
                args |-> <<lastOp.args[2], lastOp.args[3], lastOp.args[1]>>,
                kwargs |-> lastOp.kwargs]>>
    /\ lastOp.op = "WasbHook.load_string" =>
          lastOp.calls =
             <<[client |-> hooks[lastOp.self].connection,
                method |-> "create_blob_from_text",
                args |-> <<lastOp.args[2], lastOp.args[3], lastOp.args[1]>>,
                kwargs |-> lastOp.kwargs]>>

\* load_file("p", "c1", "ab", timeout=30) returned.
C3_Witness ==
    /\ lastOp.op = "WasbHook.load_file"
    /\ lastOp.args = <<"p", "c1", "ab">>
    /\ lastOp.kwargs = {<<"timeout", 30>>}
    /\ Returned(lastOp)

HasPrefix(container, prefix) ==
    \E n \in BlobNames : <<container, n>> \in DOMAIN blobs /\ StartsWith(n, prefix)

\* C4: when check_for_prefix returns, it returns whether at least one blob of the
\* container has a name starting with the prefix; it asked list_blobs for
\* num_results = 1, got at most one item, and answers true iff it got one.
C4_PrefixExists ==
    lastOp.op = "WasbHook.check_for_prefix" /\ Returned(lastOp) =>
        /\ lastOp.out = Return(Bool(HasPrefix(lastOp.args[1], lastOp.args[2])))
        /\ Len(lastOp.calls) = 1
        /\ lastOp.calls[1].method = "list_blobs"
        /\ lastOp.calls[1].args = lastOp.args
        /\ <<"num_results", 1>> \in lastOp.calls[1].kwargs
        /\ lastOp.vout.val = "list"
        /\ Len(lastOp.vout.detail) <= 1
        /\ lastOp.out = Return(Bool(lastOp.vout.detail # <<>>))

\* Two blobs share the prefix "a" and check_for_prefix answered true.
C4_Witness ==
    /\ lastOp.op = "WasbHook.check_for_prefix"
    /\ lastOp.args = <<"c1", "a">>
    /\ {<<"c1", "a">>, <<"c1", "ab">>} \subseteq DOMAIN blobs
    /\ lastOp.out = Return("True")

UploadOps == {"WasbHook.load_file", "WasbHook.load_string"}

\* C5: check_for_blob returns false for a name with no stored blob, and returns true
\* when it is the call right after a successful load_file or load_string of the
\* same container and name through the same adapter.
C5_ExistsAfterUpload ==
    [][/\ (/\ lastOp.op \in UploadOps
           /\ Returned(lastOp)
           /\ lastOp'.op = "WasbHook.check_for_blob"
           /\ lastOp'.self = lastOp.self
           /\ lastOp'.args = <<lastOp.args[2], lastOp.args[3]>>
           /\ Returned(lastOp'))
          => lastOp'.out = Return("True")
       /\ (/\ lastOp'.op = "WasbHook.check_for_blob"
           /\ Returned(lastOp')
           /\ <<lastOp'.args[1], lastOp'.args[2]>> \notin DOMAIN blobs)
          => lastOp'.out = Return("False")]_vars

\* check_for_blob answered true for a blob that load_string uploaded, while the
\* other name is still absent.
C5_Witness ==
    /\ lastOp.op = "WasbHook.check_for_blob"
    /\ lastOp.args = <<"c1", "ab">>
    /\ lastOp.out = Return("True")
    /\ <<"c1", "ab">> \in DOMAIN strOf
    /\ <<"c1", "a">> \notin DOMAIN blobs

\* C6: after load_string(d, c, n), with no later upload to the same c and n, a
\* get_blob_to_path(c, n, tmp) that returns leaves a local file at tmp holding d.
C6_RoundTrip ==
    /\ lastOp.op = "WasbHook.get_blob_to_path"
    /\ Returned(lastOp)
    /\ <<lastOp.args[1], lastOp.args[2]>> \in DOMAIN strOf
    => /\ lastOp.args[3] \in DOMAIN files
       /\ files[lastOp.args[3]] = Utf8Encode(Chars(strOf[<<lastOp.args[1], lastOp.args[2]>>]))
       /\ Utf8Decode(files[lastOp.args[3]]) = Chars(strOf[<<lastOp.args[1], lastOp.args[2]>>])

\* The text "ole" (with a non-ASCII character) came back into the local file
\* that held "hi" before.
C6_Witness ==
    /\ lastOp.op = "WasbHook.get_blob_to_path"
    /\ Returned(lastOp)
    /\ <<"c1", lastOp.args[2]>> \in DOMAIN strOf
    /\ strOf[<<"c1", lastOp.args[2]>>] = "ole"
    /\ Utf8Decode(files["p"]) = <<111, 108, 233>>

\* C7: check_for_file forwards (share, directory, file) to the vendor's exists, an
\* omitted directory or file going as None, and returns the vendor's answer: the
\* file's existence when a file is given, the directory's when only a directory
\* is given, the share's when neither is.
C7_FileShareExists ==
    lastOp.op = "FileShareHook.check_for_file" =>
        /\ lastOp.calls =
              <<[client |-> hooks[lastOp.self].connection, method |-> "exists",
                 args |-> lastOp.args, kwargs |-> lastOp.kwargs]>>
        /\ lastOp.out = lastOp.vout
        /\ Returned(lastOp) =>
              lastOp.out.val =
                 Bool(IF lastOp.args[3] # None
                      THEN <<lastOp.args[1], lastOp.args[2], lastOp.args[3]>> \in DOMAIN fshare
                      ELSE IF lastOp.args[2] # None
                      THEN <<lastOp.args[1], lastOp.args[2]>> \in ExistingDirectories
                      ELSE lastOp.args[1] \in ExistingShares)

\* A file check answered true in a directory whose own check would also be true,
\* after the file was uploaded.
C7_Witness ==
    /\ lastOp.op = "FileShareHook.check_for_file"
    /\ lastOp.args = <<"s", "d", "x">>
    /\ lastOp.out = Return("True")

\* C8: every storage method makes exactly one vendor call; when that call raises,
\* the caller gets the same error; the adapter's client and identifier stay as
\* they were.
C8_SingleCallNoWrapping ==
    lastOp.op \in StorageOps =>
        /\ Len(lastOp.calls) = 1
        /\ lastOp.vout.kind = "raise" => lastOp.out = lastOp.vout
        /\ BuiltFromRecord(hooks[lastOp.self])

\* C9: the file-share downloads forward (share, directory, file, destination) and
\* return the vendor's value; load_file and load_string take the payload first
\* and pass it last, as (share, directory, file, payload).
C9_FileShareForwarding ==
    LET a == lastOp.args
        One(method, args) ==
            lastOp.calls = <<[client |-> hooks[lastOp.self].connection,
                              method |-> method, args |-> args,
                              kwargs |-> lastOp.kwargs]>>
    IN /\ lastOp.op = "FileShareHook.get_file_to_path" =>
             One("get_file_to_path", a) /\ lastOp.out = lastOp.vout
       /\ lastOp.op = "FileShareHook.get_file_to_stream" =>
             One("get_file_to_stream", a) /\ lastOp.out = lastOp.vout
       /\ lastOp.op = "FileShareHook.load_file" =>
             One("create_file_from_path", <<a[2], a[3], a[4], a[1]>>)
       /\ lastOp.op = "FileShareHook.load_string" =>
             One("create_file_from_text", <<a[2], a[3], a[4], a[1]>>)

\* load_file("p", "s", "d", "x") returned and the file is in the share.
C9_Witness ==
    /\ lastOp.op = "FileShareHook.load_file"
    /\ lastOp.args = <<"p", "s", "d", "x">>
    /\ Returned(lastOp)
    /\ <<"s", "d", "x">> \in DOMAIN fshare

\* C10: get_conn on a constructed adapter makes a new lookup and returns a new
\* vendor client, and binds nothing: the adapters are as they were, and every
\* storage call still goes to the client bound at construction.
C10_GetConnDoesNotRebind ==
    /\ [][lastOp'.op = "get_conn" /\ Returned(lastOp') =>
            /\ lastOp'.lookups = 1
            /\ Len(lastOp'.calls) = 1
            /\ Len(clients') = Len(clients) + 1
            /\ lastOp'.made = Len(clients')
            /\ clients'[lastOp'.made].service = ServiceOf(hooks[lastOp'.self].cls)
            /\ \A i \in 1..Len(hooks) : hooks[i].connection # lastOp'.made
            /\ hooks' = hooks]_vars
    /\ [](lastOp.op \in StorageOps =>
            \A k \in 1..Len(lastOp.calls) :
                lastOp.calls[k].client = hooks[lastOp.self].connection)
    /\ [][\A i \in 1..Len(hooks) : hooks'[i].connection = hooks[i].connection]_vars

\* After get_conn built a second client, a storage call still went to the first.
C10_Witness ==
    /\ lastOp.op \in StorageOps
    /\ Len(hooks) = 1
    /\ Len(clients) = 2
    /\ hooks[1].connection = 1
    /\ Len(lastOp.calls) = 1
    /\ lastOp.calls[1].client = 1

====
